---- MODULE Spec2Model ----
(***************************************************************************)
(* A model of nanopond.c: the pond (a toroidal grid of cells), the         *)
(* scheduler loop of run(), the per-cell virtual machine and the offspring *)
(* commit.  One behaviour of the model is one call of run by main, after   *)
(* main has cleared the pond.  The run loop is cut at three places: the    *)
(* head of the main loop (pc = "tick"), the head of the core execution     *)
(* loop (pc = "exec"), and the code after it (the commit, part of the      *)
(* action that leaves the execution loop).                                 *)
(*                                                                         *)
(* Machine words are natural numbers below 2^SYSWORD_BITS; shifts, masks   *)
(* and codon stores are computed arithmetically as the C code computes     *)
(* them on uintptr_t.  Every call of getRandom() is a choice from a small  *)
(* set of values that cover the outcomes the call site distinguishes.      *)
(***************************************************************************)
EXTENDS Integers, Sequences, FiniteSets, TLC

(***************************************************************************)
(* Configuration.  The tunable parameters of nanopond.c are scaled down;   *)
(* the names are the source's.                                             *)
(***************************************************************************)
\* #define POND_SIZE_X 800, POND_SIZE_Y 600 (scaled)
POND_SIZE_X == 2

POND_SIZE_Y == 2

\* #define INFLOW_FREQUENCY 100 (scaled)
INFLOW_FREQUENCY == 2

\* #define INFLOW_RATE_BASE 600 (scaled)
INFLOW_RATE_BASE == 2

\* #define INFLOW_RATE_VARIATION 1000 (scaled)
INFLOW_RATE_VARIATION == 2

\* #define REPORT_FREQUENCY 200000 (scaled)
REPORT_FREQUENCY == 3

\* #define FAILED_KILL_PENALTY 3
FAILED_KILL_PENALTY == 3

\* sizeof(uintptr_t), in bytes (8 on the machines the program is built for)
SIZEOF_UINTPTR == 1

\* The number of machine words of a genome; POND_DEPTH is derived from it so
\* that POND_DEPTH stays a multiple of the codons of one word.
GenomeWords == 3

POND_DEPTH == GenomeWords * (SIZEOF_UINTPTR * 2)

POND_DEPTH_SYSWORDS == POND_DEPTH \div (SIZEOF_UINTPTR * 2)

SYSWORD_BITS == SIZEOF_UINTPTR * 8

N_LEFT == 0

N_RIGHT == 1

N_UP == 2

N_DOWN == 3

EXEC_START_WORD == 0

EXEC_START_BIT == 4

\* The number of ticks of the main loop a behaviour runs for.
MaxClock == 3

\* The number of mutation events (line 344 true) in one behaviour.
MaxMutations == 1

(***************************************************************************)
(* Word arithmetic.                                                        *)
(***************************************************************************)
RECURSIVE Pow2(_)
Pow2(n) == IF n = 0 THEN 1 ELSE 2 * Pow2(n - 1)

\* ~((uintptr_t)0)
ALL_ONES == Pow2(SYSWORD_BITS) - 1

\* (w >> s) & 0xf
CodonAt(w, s) == (w \div Pow2(s)) % 16

\* w &= ~(((uintptr_t)0xf) << s); w |= v << s   (v << s truncated to the word)
StoreCodon(w, s, v) ==
    ((w - CodonAt(w, s) * Pow2(s)) + v * Pow2(s)) % Pow2(SYSWORD_BITS)

\* a ^ b on four-bit values
Xor4(a, b) ==
    LET bit(v, i) == (v \div Pow2(i)) % 2
    IN  ((bit(a, 0) + bit(b, 0)) % 2)
        + 2 * ((bit(a, 1) + bit(b, 1)) % 2)
        + 4 * ((bit(a, 2) + bit(b, 2)) % 2)
        + 8 * ((bit(a, 3) + bit(b, 3)) % 2)

\* static const uintptr_t BITS_IN_FOURBIT_WORD[16]
BITS_IN_FOURBIT_WORD == <<0, 1, 1, 2, 1, 2, 2, 3, 1, 2, 2, 3, 2, 3, 3, 4>>

(***************************************************************************)
(* Genomes as arrays of words.  Pack lays a sequence of codons out in      *)
(* words by shift (codon j of a word sits at bits [4j, 4j+4)), padding     *)
(* with 0xf.                                                               *)
(***************************************************************************)
CodonsPerWord == SYSWORD_BITS \div 4

RECURSIVE PackWord(_, _, _)
PackWord(codons, base, j) ==
    IF j = CodonsPerWord THEN 0
    ELSE (IF base + j + 1 <= Len(codons) THEN codons[base + j + 1] ELSE 15)
         + 16 * PackWord(codons, base, j + 1)

Pack(codons) ==
    [i \in 0 .. (POND_DEPTH_SYSWORDS - 1) |-> PackWord(codons, i * CodonsPerWord, 0)]

BlankGenome == [i \in 0 .. (POND_DEPTH_SYSWORDS - 1) |-> ALL_ONES]

VARIABLES
    pond,                       \* static struct Cell pond[POND_SIZE_X][POND_SIZE_Y]
    cellIdCounter,              \* static volatile uint64_t cellIdCounter
    statCounters,               \* volatile struct statCounters
    lastTotalViableReplicators, \* doReport's static
    clock,                      \* run: clock
    pc,                         \* run: "tick" (head of the main loop) or "exec"
    x, y,                       \* run: the cell picked for execution
    vm,                         \* run: the locals of the virtual machine
    mutations,                  \* the number of mutation events so far
    exe,                        \* the current execution: its steps so far
    issued,                     \* the ids handed out, in the order of creation
    ev,                         \* the step just taken, with the state before it
    probe                       \* a single function applied on its own: its
                                \* configuration, arguments and result

vars == <<pond, cellIdCounter, statCounters, lastTotalViableReplicators, clock,
          pc, x, y, vm, mutations, exe, issued, ev, probe>>


(***************************************************************************)
(* Cells and the pond.                                                     *)
(***************************************************************************)
\* main(): the cleared cell
DefaultCell ==
    [ID |-> 0, parentID |-> 0, lineage |-> 0, generation |-> 0, energy |-> 0,
     genome |-> BlankGenome]

XS == 0 .. (POND_SIZE_X - 1)

YS == 0 .. (POND_SIZE_Y - 1)

\* statCounters with every byte zero
ZeroCounters ==
    [instructionExecutions |-> [i \in 0 .. 15 |-> 0], cellExecutions |-> 0,
     viableCellsReplaced |-> 0, viableCellsKilled |-> 0, viableCellShares |-> 0]

\* A plausible slip: no wrap at the edges.
getNeighborClamped(w, h, cx, cy, dir) ==
    CASE dir = N_LEFT  -> IF cx # 0 THEN <<cx - 1, cy>> ELSE <<cx, cy>>
      [] dir = N_RIGHT -> IF cx < w - 1 THEN <<cx + 1, cy>> ELSE <<cx, cy>>
      [] dir = N_UP    -> IF cy # 0 THEN <<cx, cy - 1>> ELSE <<cx, cy>>
      [] dir = N_DOWN  -> IF cy < h - 1 THEN <<cx, cy + 1>> ELSE <<cx, cy>>
      [] OTHER         -> <<cx, cy>>

\* getNeighbor in a pond of w by h cells (POND_SIZE_X by POND_SIZE_Y): the
\* position of the neighbour of (cx, cy) in direction dir
getNeighborIn(w, h, cx, cy, dir) ==
    CASE dir = N_LEFT  -> IF cx # 0 THEN <<cx - 1, cy>> ELSE <<w - 1, cy>>
      [] dir = N_RIGHT -> IF cx < w - 1 THEN <<cx + 1, cy>> ELSE <<0, cy>>
      [] dir = N_UP    -> IF cy # 0 THEN <<cx, cy - 1>> ELSE <<cx, h - 1>>
      [] dir = N_DOWN  -> IF cy < h - 1 THEN <<cx, cy + 1>> ELSE <<cx, 0>>
      [] OTHER         -> <<cx, cy>>

getNeighbor(cx, cy, dir) == getNeighborIn(POND_SIZE_X, POND_SIZE_Y, cx, cy, dir)

\* A plausible slip: strict comparisons.
accessAllowedStrict(c2, c1guess, sense, rnd) ==
    IF sense # 0
    THEN \/ (rnd % 16) > BITS_IN_FOURBIT_WORD[Xor4(c2.genome[0] % 16, c1guess % 16) + 1]
         \/ c2.parentID = 0
    ELSE \/ (rnd % 16) < BITS_IN_FOURBIT_WORD[Xor4(c2.genome[0] % 16, c1guess % 16) + 1]
         \/ c2.parentID = 0

\* accessAllowed, with rnd the word its one call of getRandom() returns
accessAllowed(c2, c1guess, sense, rnd) ==
    IF sense # 0
    THEN \/ (rnd % 16) >= BITS_IN_FOURBIT_WORD[Xor4(c2.genome[0] % 16, c1guess % 16) + 1]
         \/ c2.parentID = 0
    ELSE \/ (rnd % 16) <= BITS_IN_FOURBIT_WORD[Xor4(c2.genome[0] % 16, c1guess % 16) + 1]
         \/ c2.parentID = 0

\* The record of one call of accessAllowed, kept in ev.
NoAccess ==
    [on |-> FALSE, sense |-> 0, guess |-> 0, rnd |-> 0, tx |-> 0, ty |-> 0,
     parentID |-> 0, word0 |-> 0, result |-> FALSE]

AccessRecord(p, n, guess, sense, rnd) ==
    [on |-> TRUE, sense |-> sense, guess |-> guess, rnd |-> rnd, tx |-> n[1],
     ty |-> n[2], parentID |-> p[n[1]][n[2]].parentID,
     word0 |-> p[n[1]][n[2]].genome[0],
     result |-> accessAllowed(p[n[1]][n[2]], guess, sense, rnd)]

(***************************************************************************)
(* The instructions.  Each takes the state s the switch statement runs in  *)
(* (the pond, cellIdCounter, statCounters, the VM locals, and the ghost    *)
(* fields issued, acc and cont) and returns the state after its case.      *)
(* cont is set by the "continue" of REP.                                   *)
(***************************************************************************)
\* case 0x0: ZERO
ZERO(s) ==
    [s EXCEPT !.vm.reg = 0, !.vm.ptr_wordPtr = 0, !.vm.ptr_shiftPtr = 0,
              !.vm.facing = 0]

\* The instructions that move a pointer or push on the loop stack are
\* written on the VM locals v, for a genome of `words` machine words
\* (POND_DEPTH_SYSWORDS) and a loop stack of `depth` entries (POND_DEPTH).
\* case 0x1: FWD
FWDIn(words, v) ==
    IF v.ptr_shiftPtr + 4 >= SYSWORD_BITS
    THEN [v EXCEPT !.ptr_wordPtr = IF v.ptr_wordPtr + 1 >= words THEN 0
                                   ELSE v.ptr_wordPtr + 1,
                   !.ptr_shiftPtr = 0]
    ELSE [v EXCEPT !.ptr_shiftPtr = v.ptr_shiftPtr + 4]

FWD(s) == [s EXCEPT !.vm = FWDIn(POND_DEPTH_SYSWORDS, s.vm)]

\* case 0x2: BACK
BACKIn(words, v) ==
    IF v.ptr_shiftPtr # 0
    THEN [v EXCEPT !.ptr_shiftPtr = v.ptr_shiftPtr - 4]
    ELSE [v EXCEPT !.ptr_wordPtr = IF v.ptr_wordPtr # 0 THEN v.ptr_wordPtr - 1
                                   ELSE words - 1,
                   !.ptr_shiftPtr = SYSWORD_BITS - 4]

BACK(s) == [s EXCEPT !.vm = BACKIn(POND_DEPTH_SYSWORDS, s.vm)]

\* case 0x3: INC
INC(s) == [s EXCEPT !.vm.reg = (s.vm.reg + 1) % 16]

\* case 0x4: DEC   ((reg - 1) & 0xf on an unsigned word)
DEC(s) == [s EXCEPT !.vm.reg = (s.vm.reg + Pow2(SYSWORD_BITS) - 1) % 16]

\* case 0x5: READG
READG(s) ==
    [s EXCEPT !.vm.reg =
        CodonAt(s.pond[x][y].genome[s.vm.ptr_wordPtr], s.vm.ptr_shiftPtr)]

\* A plausible slip: WRITEG does not refresh the cached word.
WRITEGStale(s) ==
    [s EXCEPT !.pond[x][y].genome[s.vm.ptr_wordPtr] =
                  StoreCodon(@, s.vm.ptr_shiftPtr, s.vm.reg)]

\* case 0x6: WRITEG
WRITEG(s) ==
    LET g == [s.pond[x][y].genome EXCEPT ![s.vm.ptr_wordPtr] =
                  StoreCodon(@, s.vm.ptr_shiftPtr, s.vm.reg)]
    IN  [s EXCEPT !.pond[x][y].genome = g, !.vm.currentWord = g[s.vm.wordPtr]]

\* case 0x7: READB
READB(s) ==
    [s EXCEPT !.vm.reg = CodonAt(s.vm.outputBuf[s.vm.ptr_wordPtr], s.vm.ptr_shiftPtr)]

\* case 0x8: WRITEB
WRITEB(s) ==
    [s EXCEPT !.vm.outputBuf[s.vm.ptr_wordPtr] =
        StoreCodon(@, s.vm.ptr_shiftPtr, s.vm.reg)]

\* A plausible slip: LOOP pushes without looking at the depth of the stack.
LOOPUnchecked(depth, v) ==
    IF v.reg # 0
    THEN [v EXCEPT !.loopStack_wordPtr[v.loopStackPtr] = v.wordPtr,
                   !.loopStack_shiftPtr[v.loopStackPtr] = v.shiftPtr,
                   !.loopStackPtr = v.loopStackPtr + 1]
    ELSE [v EXCEPT !.falseLoopDepth = 1]

\* case 0x9: LOOP
LOOPIn(depth, v) ==
    IF v.reg # 0
    THEN IF v.loopStackPtr >= depth
         THEN [v EXCEPT !.stop = 1]
         ELSE [v EXCEPT !.loopStack_wordPtr[v.loopStackPtr] = v.wordPtr,
                        !.loopStack_shiftPtr[v.loopStackPtr] = v.shiftPtr,
                        !.loopStackPtr = v.loopStackPtr + 1]
    ELSE [v EXCEPT !.falseLoopDepth = 1]

LOOP(s) == [s EXCEPT !.vm = LOOPIn(POND_DEPTH, s.vm)]

\* A plausible slip: a REP without a LOOP on the stack restarts the genome.
REPRestarting(s) ==
    IF s.vm.loopStackPtr # 0
    THEN LET sp == s.vm.loopStackPtr - 1
         IN  IF s.vm.reg # 0
             THEN [s EXCEPT !.vm.loopStackPtr = sp,
                            !.vm.wordPtr = s.vm.loopStack_wordPtr[sp],
                            !.vm.shiftPtr = s.vm.loopStack_shiftPtr[sp],
                            !.vm.currentWord =
                                s.pond[x][y].genome[s.vm.loopStack_wordPtr[sp]],
                            !.cont = TRUE]
             ELSE [s EXCEPT !.vm.loopStackPtr = sp]
    ELSE [s EXCEPT !.vm.wordPtr = EXEC_START_WORD, !.vm.shiftPtr = EXEC_START_BIT,
                   !.vm.currentWord = s.pond[x][y].genome[EXEC_START_WORD],
                   !.cont = TRUE]

\* case 0xa: REP
REP(s) ==
    IF s.vm.loopStackPtr # 0
    THEN LET sp == s.vm.loopStackPtr - 1
         IN  IF s.vm.reg # 0
             THEN [s EXCEPT !.vm.loopStackPtr = sp,
                            !.vm.wordPtr = s.vm.loopStack_wordPtr[sp],
                            !.vm.shiftPtr = s.vm.loopStack_shiftPtr[sp],
                            !.vm.currentWord =
                                s.pond[x][y].genome[s.vm.loopStack_wordPtr[sp]],
                            !.cont = TRUE]
             ELSE [s EXCEPT !.vm.loopStackPtr = sp]
    ELSE s

\* case 0xb: TURN
TURN(s) == [s EXCEPT !.vm.facing = s.vm.reg % 4]

\* The cursor step shared by XCHG and the end of the loop body:
\* if ((shiftPtr += 4) >= SYSWORD_BITS) { if (++wordPtr >= ...) {...} else shiftPtr = 0; }
AdvanceCursorIn(words, v) ==
    IF v.shiftPtr + 4 >= SYSWORD_BITS
    THEN IF v.wordPtr + 1 >= words
         THEN [v EXCEPT !.wordPtr = EXEC_START_WORD, !.shiftPtr = EXEC_START_BIT]
         ELSE [v EXCEPT !.wordPtr = v.wordPtr + 1, !.shiftPtr = 0]
    ELSE [v EXCEPT !.shiftPtr = v.shiftPtr + 4]

AdvanceCursor(v) == AdvanceCursorIn(POND_DEPTH_SYSWORDS, v)

\* case 0xc: XCHG
XCHG(s) ==
    LET v   == AdvanceCursor(s.vm)
        old == s.pond[x][y].genome[v.wordPtr]
        new == StoreCodon(old, v.shiftPtr, s.vm.reg)
    IN  [s EXCEPT !.vm = [v EXCEPT !.reg = CodonAt(old, v.shiftPtr),
                                  !.currentWord = new],
                  !.pond[x][y].genome[v.wordPtr] = new]

\* lines 458-459: the genome words a KILL fills with ones
BlankedWords == {0, 1}

\* A plausible slip: the killed cell keeps its generation.
BlankKeepingGeneration(c, id) ==
    [c EXCEPT !.genome = [i \in DOMAIN c.genome |->
                             IF i \in BlankedWords THEN ALL_ONES ELSE c.genome[i]],
              !.ID = id, !.parentID = 0, !.lineage = id]

\* lines 458-463: the blanking of a KILLed cell
Blank(c, id) ==
    [c EXCEPT !.genome = [i \in DOMAIN c.genome |->
                             IF i \in BlankedWords THEN ALL_ONES ELSE c.genome[i]],
              !.ID = id, !.parentID = 0, !.lineage = id, !.generation = 0]

\* A plausible slip: the penalty is a half, whatever FAILED_KILL_PENALTY is.
PenaltyHalf(e) == e - (e \div 2)

\* lines 466-469: the penalty of a KILL that was denied
Penalty(e) ==
    LET tmp == e \div FAILED_KILL_PENALTY
    IN  IF e > tmp THEN e - tmp ELSE 0

\* A plausible slip: a granted KILL hands out the id without counting it.
KILLKeepingCounter(s, rnd) ==
    LET n   == getNeighbor(x, y, s.vm.facing)
        t   == s.pond[n[1]][n[2]]
        rec == AccessRecord(s.pond, n, s.vm.reg, 0, rnd)
    IN  IF accessAllowed(t, s.vm.reg, 0, rnd)
        THEN [s EXCEPT !.statCounters.viableCellsKilled =
                           IF t.generation > 2 THEN @ + 1 ELSE @,
                       !.pond[n[1]][n[2]] = Blank(t, s.cellIdCounter),
                       !.issued = Append(s.issued, s.cellIdCounter),
                       !.acc = rec]
        ELSE IF t.generation > 2
             THEN [s EXCEPT !.pond[x][y].energy = Penalty(s.pond[x][y].energy),
                            !.acc = rec]
             ELSE [s EXCEPT !.acc = rec]

\* case 0xd: KILL
KILL(s, rnd) ==
    LET n   == getNeighbor(x, y, s.vm.facing)
        t   == s.pond[n[1]][n[2]]
        rec == AccessRecord(s.pond, n, s.vm.reg, 0, rnd)
    IN  IF accessAllowed(t, s.vm.reg, 0, rnd)
        THEN [s EXCEPT !.statCounters.viableCellsKilled =
                           IF t.generation > 2 THEN @ + 1 ELSE @,
                       !.pond[n[1]][n[2]] = Blank(t, s.cellIdCounter),
                       !.cellIdCounter = s.cellIdCounter + 1,
                       !.issued = Append(s.issued, s.cellIdCounter),
                       !.acc = rec]
        ELSE IF t.generation > 2
             THEN [s EXCEPT !.pond[x][y].energy = Penalty(s.pond[x][y].energy),
                            !.acc = rec]
             ELSE [s EXCEPT !.acc = rec]

\* Plausible slips: the neighbour gets the remainder; the neighbour gets a third.
ShareNeighborCeil(self, nb) == (self + nb + 1) \div 2

ShareNeighborThird(self, nb) == (self + nb) \div 3

\* lines 477-479: the energies of the actor and the neighbour after a SHARE
ShareNeighbor(self, nb) == (self + nb) \div 2

\* case 0xe: SHARE
SHARE(s, rnd) ==
    LET n   == getNeighbor(x, y, s.vm.facing)
        t   == s.pond[n[1]][n[2]]
        rec == AccessRecord(s.pond, n, s.vm.reg, 1, rnd)
        e   == s.pond[x][y].energy
        p1  == [s.pond EXCEPT ![n[1]][n[2]].energy = ShareNeighbor(e, t.energy)]
        p2  == [p1 EXCEPT ![x][y].energy = (e + t.energy) - p1[n[1]][n[2]].energy]
    IN  IF accessAllowed(t, s.vm.reg, 1, rnd)
        THEN [s EXCEPT !.statCounters.viableCellShares =
                           IF t.generation > 2 THEN @ + 1 ELSE @,
                       !.pond = p2, !.acc = rec]
        ELSE [s EXCEPT !.acc = rec]

\* A plausible slip: STOP does not end the execution.
STOPIgnored(s) == s

\* case 0xf: STOP
STOP(s) == [s EXCEPT !.vm.stop = 1]

\* switch(inst)
Dispatch(s, inst, rnd) ==
    CASE inst = 0  -> ZERO(s)
      [] inst = 1  -> FWD(s)
      [] inst = 2  -> BACK(s)
      [] inst = 3  -> INC(s)
      [] inst = 4  -> DEC(s)
      [] inst = 5  -> READG(s)
      [] inst = 6  -> WRITEG(s)
      [] inst = 7  -> READB(s)
      [] inst = 8  -> WRITEB(s)
      [] inst = 9  -> LOOP(s)
      [] inst = 10 -> REP(s)
      [] inst = 11 -> TURN(s)
      [] inst = 12 -> XCHG(s)
      [] inst = 13 -> KILL(s, rnd)
      [] inst = 14 -> SHARE(s, rnd)
      [] inst = 15 -> STOP(s)

(***************************************************************************)
(* The draws of getRandom().                                               *)
(***************************************************************************)
\* line 345: tmp, of which bit 0x80 and the low four bits are read
TmpDraws == (0 .. 15) \cup (128 .. 143)

\* lines 283-284, 292: the draws of a seeding, reduced as the code reduces them
SeedPrograms ==
    { <<1, 8, 15>>,        \* WRITEB STOP: emits codon 0 into the buffer
      <<1, 13, 15>>,       \* KILL STOP
      <<1, 14, 8>> }       \* SHARE WRITEB ...

SeedDraws ==
    [px : XS, py : YS, variation : 0 .. (INFLOW_RATE_VARIATION - 1),
     genome : {Pack(c) : c \in SeedPrograms}]

NoSeedDraw == [px |-> 0, py |-> 0, variation |-> 0, genome |-> BlankGenome]

\* line 304: i = getRandom(), over one period of (x, y)
SelectDraws == 0 .. (2 * POND_SIZE_X * POND_SIZE_Y - 1)

(***************************************************************************)
(* The events recorded in ev.                                              *)
(***************************************************************************)
Snapshot ==
    [pond |-> pond, cellIdCounter |-> cellIdCounter, statCounters |-> statCounters,
     vm |-> vm]

Event(kind, inst, mutated, skip, acc, cont, done, sx, sy) ==
    [kind |-> kind, inst |-> inst, mutated |-> mutated, skip |-> skip, acc |-> acc,
     cont |-> cont, done |-> done, sx |-> sx, sy |-> sy, pre |-> Snapshot]

(***************************************************************************)
(* The head of the main loop: lines 270-331.                               *)
(***************************************************************************)
\* doReport: the count it keeps in its static
TotalViableReplicators(p) ==
    Cardinality({c \in XS \X YS :
                    p[c[1]][c[2]].energy # 0 /\ p[c[1]][c[2]].generation > 2})

\* A plausible slip: only the variation is added.
SeededWithoutBase(c, id, d) ==
    [ID |-> id, parentID |-> 0, lineage |-> id, generation |-> 0,
     energy |-> c.energy + (d.variation % INFLOW_RATE_VARIATION),
     genome |-> d.genome]

\* lines 285-298: the seeding of cell c with id
Seeded(c, id, d) ==
    [ID |-> id, parentID |-> 0, lineage |-> id, generation |-> 0,
     energy |-> c.energy + INFLOW_RATE_BASE + (d.variation % INFLOW_RATE_VARIATION),
     genome |-> d.genome]

\* lines 310-328: the VM before an execution of a cell with genome g
ResetVM(v, g) ==
    [v EXCEPT !.outputBuf = [i \in 0 .. (POND_DEPTH_SYSWORDS - 1) |-> ALL_ONES],
              !.ptr_wordPtr = 0, !.ptr_shiftPtr = 0, !.reg = 0, !.loopStackPtr = 0,
              !.wordPtr = EXEC_START_WORD, !.shiftPtr = EXEC_START_BIT,
              !.facing = 0, !.falseLoopDepth = 0, !.stop = 0,
              !.currentWord = g[0]]

Tick ==
    /\ pc = "tick"
    /\ clock < MaxClock
    /\ LET clock1  == clock + 1
           report  == (clock1 % REPORT_FREQUENCY) = 0
           seeding == (clock1 % INFLOW_FREQUENCY) = 0
       IN  \E d \in (IF seeding THEN SeedDraws ELSE {NoSeedDraw}) :
           \E i \in SelectDraws :
               LET sx == d.px % POND_SIZE_X
                   sy == d.py % POND_SIZE_Y
                   p1 == IF seeding
                         THEN [pond EXCEPT ![sx][sy] = Seeded(@, cellIdCounter, d)]
                         ELSE pond
                   nx == i % POND_SIZE_X
                   ny == ((i \div POND_SIZE_X) \div 2) % POND_SIZE_Y
                   st == IF report THEN ZeroCounters ELSE statCounters
               IN  /\ clock' = clock1
                   /\ lastTotalViableReplicators' =
                          IF report THEN TotalViableReplicators(pond)
                          ELSE lastTotalViableReplicators
                   /\ pond' = p1
                   /\ cellIdCounter' = IF seeding THEN cellIdCounter + 1
                                       ELSE cellIdCounter
                   /\ issued' = IF seeding THEN Append(issued, cellIdCounter)
                                ELSE issued
                   /\ x' = nx
                   /\ y' = ny
                   /\ vm' = ResetVM(vm, p1[nx][ny].genome)
                   /\ statCounters' = [st EXCEPT !.cellExecutions = @ + 1]
                   /\ pc' = "exec"
                   /\ exe' = [steps |-> 0, energy0 |-> p1[nx][ny].energy,
                              first |-> NoAccess, firstInst |-> 0,
                              firstNeighbor |-> 0, seeded |-> seeding,
                              sx |-> sx, sy |-> sy, pond0 |-> p1,
                              mutated |-> FALSE]
                   /\ ev' = Event("tick", 0, FALSE, FALSE, NoAccess, FALSE, seeding,
                                  sx, sy)
                   /\ UNCHANGED <<mutations, probe>>

(***************************************************************************)
(* One iteration of the core execution loop: lines 334-497.                *)
(***************************************************************************)
\* lines 344-349: the codon executed and the register, after the mutation draw
MutatedInst(inst, hit, tmp) ==
    IF hit /\ (tmp \div 128) % 2 = 1 THEN tmp % 16 ELSE inst

MutatedReg(reg, hit, tmp) ==
    IF hit /\ (tmp \div 128) % 2 = 0 THEN tmp % 16 ELSE reg

\* A plausible slip: a LOOP met while skipping is not counted.
SkipFlat(s, inst) ==
    IF inst = 10 THEN [s EXCEPT !.vm.falseLoopDepth = @ - 1] ELSE s

\* lines 355-361: a codon met while skipping to the matching REP
Skip(s, inst) ==
    IF inst = 9 THEN [s EXCEPT !.vm.falseLoopDepth = @ + 1]
    ELSE IF inst = 10 THEN [s EXCEPT !.vm.falseLoopDepth = @ - 1]
    ELSE s

\* lines 490-496: the end of the loop body
EndOfBody(s) ==
    LET v == AdvanceCursor(s.vm)
    IN  IF s.vm.shiftPtr + 4 >= SYSWORD_BITS
        THEN [s EXCEPT !.vm = [v EXCEPT !.currentWord = s.pond[x][y].genome[v.wordPtr]]]
        ELSE [s EXCEPT !.vm = v]

\* A plausible slip: the instruction is executed for free.
StepCostFree(e) == e

\* line 352: --pptr->energy
StepCost(e) == e - 1

\* lines 336-496, with the three draws an iteration can make
Iteration(hit, tmp, rnd) ==
    LET inst == MutatedInst(CodonAt(vm.currentWord, vm.shiftPtr), hit, tmp)
        s0   == [pond |-> [pond EXCEPT ![x][y].energy = StepCost(@)],
                 cellIdCounter |-> cellIdCounter, statCounters |-> statCounters,
                 vm |-> [vm EXCEPT !.reg = MutatedReg(@, hit, tmp)],
                 issued |-> issued, acc |-> NoAccess, cont |-> FALSE]
        s1   == IF vm.falseLoopDepth # 0 THEN Skip(s0, inst)
                ELSE Dispatch([s0 EXCEPT !.statCounters.instructionExecutions[inst]
                                             = @ + 1], inst, rnd)
    IN  IF s1.cont THEN s1 ELSE EndOfBody(s1)

Step ==
    /\ pc = "exec"
    /\ pond[x][y].energy # 0
    /\ vm.stop = 0
    /\ \E hit \in (IF mutations < MaxMutations THEN BOOLEAN ELSE {FALSE}) :
       \E tmp \in (IF hit THEN TmpDraws ELSE {0}) :
           LET inst == MutatedInst(CodonAt(vm.currentWord, vm.shiftPtr), hit, tmp)
               n    == getNeighbor(x, y, vm.facing)
           IN  \E rnd \in (IF vm.falseLoopDepth = 0 /\ inst \in {13, 14}
                           THEN 0 .. 15 ELSE {0}) :
                   \E s \in {Iteration(hit, tmp, rnd)} :
                       /\ pond' = s.pond
                       /\ cellIdCounter' = s.cellIdCounter
                       /\ statCounters' = s.statCounters
                       /\ vm' = s.vm
                       /\ issued' = s.issued
                       /\ mutations' = IF hit THEN mutations + 1 ELSE mutations
                       /\ exe' = IF exe.steps = 0
                                 THEN [exe EXCEPT !.steps = 1, !.first = s.acc,
                                                  !.firstInst = inst,
                                                  !.firstNeighbor =
                                                      pond[n[1]][n[2]].energy,
                                                  !.mutated = hit]
                                 ELSE [exe EXCEPT !.steps = @ + 1,
                                                  !.mutated = @ \/ hit]
                       /\ ev' = Event("step", inst, hit, vm.falseLoopDepth # 0,
                                      s.acc, s.cont, FALSE, 0, 0)
                       /\ UNCHANGED <<lastTotalViableReplicators, clock, pc, x, y,
                                      probe>>

(***************************************************************************)
(* The exit of the execution loop and the offspring commit: lines 504-519. *)
(***************************************************************************)
\* A plausible slip: the offspring starts its own lineage.
OffspringOwnLineage(t, parent, id, buf) ==
    [t EXCEPT !.ID = id, !.parentID = parent.ID, !.lineage = id,
              !.generation = parent.generation + 1, !.genome = buf]

\* A plausible slip: the offspring is handed the energy of its parent.
OffspringWithEnergy(t, parent, id, buf) ==
    [t EXCEPT !.ID = id, !.parentID = parent.ID, !.lineage = parent.lineage,
              !.generation = parent.generation + 1, !.genome = buf,
              !.energy = parent.energy]

\* lines 511-517: the cell t overwritten by the offspring of parent
Offspring(t, parent, id, buf) ==
    [t EXCEPT !.ID = id, !.parentID = parent.ID, !.lineage = parent.lineage,
              !.generation = parent.generation + 1, !.genome = buf]

\* A plausible slip: the offspring is written to a neighbour without energy too.
CommitAttemptedAnyEnergy == (vm.outputBuf[0] % 256) # 255

\* line 504 and the left operand of line 506
CommitAttempted ==
    LET n == getNeighbor(x, y, vm.facing)
    IN  (vm.outputBuf[0] % 256) # 255 /\ pond[n[1]][n[2]].energy # 0

Commit ==
    /\ pc = "exec"
    /\ ~(pond[x][y].energy # 0 /\ vm.stop = 0)
    /\ \E rnd \in (IF CommitAttempted THEN 0 .. 15 ELSE {0}) :
           LET n  == getNeighbor(x, y, vm.facing)
               t  == pond[n[1]][n[2]]
               ok == CommitAttempted /\ accessAllowed(t, vm.reg, 0, rnd)
               id == cellIdCounter + 1
           IN  /\ pond' = IF ok
                          THEN [pond EXCEPT ![n[1]][n[2]] =
                                    Offspring(t, pond[x][y], id, vm.outputBuf)]
                          ELSE pond
               /\ cellIdCounter' = IF ok THEN id ELSE cellIdCounter
               /\ issued' = IF ok THEN Append(issued, id) ELSE issued
               /\ statCounters' =
                      IF ok /\ t.generation > 2
                      THEN [statCounters EXCEPT !.viableCellsReplaced = @ + 1]
                      ELSE statCounters
               /\ ev' = Event("commit", 0, FALSE, FALSE,
                              IF CommitAttempted
                              THEN AccessRecord(pond, n, vm.reg, 0, rnd)
                              ELSE NoAccess,
                              FALSE, ok, 0, 0)
               /\ pc' = "tick"
               /\ UNCHANGED <<lastTotalViableReplicators, clock, x, y, vm,
                              mutations, exe, probe>>

(***************************************************************************)
(* The program.                                                            *)
(***************************************************************************)
\* The locals of run are not initialised; each is assigned before it is
\* read (lines 310-328 and 417-418), so their first values do not matter.
ZeroVM ==
    [outputBuf |-> [i \in 0 .. (POND_DEPTH_SYSWORDS - 1) |-> 0],
     ptr_wordPtr |-> 0, ptr_shiftPtr |-> 0, reg |-> 0, facing |-> 0,
     loopStack_wordPtr |-> [i \in 0 .. (POND_DEPTH - 1) |-> 0],
     loopStack_shiftPtr |-> [i \in 0 .. (POND_DEPTH - 1) |-> 0],
     loopStackPtr |-> 0, falseLoopDepth |-> 0, stop |-> 0, wordPtr |-> 0,
     shiftPtr |-> 0, currentWord |-> 0]

\* Before the first tick no cell has been picked.
NoExecution ==
    [steps |-> 0, energy0 |-> 0, first |-> NoAccess, firstInst |-> 0,
     firstNeighbor |-> 0, seeded |-> FALSE, sx |-> 0, sy |-> 0,
     pond0 |-> [i \in XS |-> [j \in YS |-> DefaultCell]], mutated |-> FALSE]

\* No function is applied on its own in a run of the program.
NoProbe == [kind |-> "none"]

\* main(): lines 537-558
Init ==
    /\ probe = NoProbe
    /\ pond = [i \in XS |-> [j \in YS |-> DefaultCell]]
    /\ cellIdCounter = 0
    /\ statCounters = ZeroCounters
    /\ lastTotalViableReplicators = 0
    /\ clock = 0
    /\ pc = "tick"
    /\ x = 0
    /\ y = 0
    /\ vm = ZeroVM
    /\ mutations = 0
    /\ exe = NoExecution
    /\ issued = <<>>
    /\ ev = [kind |-> "init", inst |-> 0, mutated |-> FALSE, skip |-> FALSE,
             acc |-> NoAccess, cont |-> FALSE, done |-> FALSE, sx |-> 0, sy |-> 0,
             pre |-> [pond |-> [i \in XS |-> [j \in YS |-> DefaultCell]],
                      cellIdCounter |-> 0, statCounters |-> ZeroCounters,
                      vm |-> ZeroVM]]

Next == Tick \/ Step \/ Commit

Spec == Init /\ [][Next]_vars

(***************************************************************************)
(* Executions from ponds later in a run.  A run from the cleared pond      *)
(* needs many ticks before cells hold much energy or have generation > 2,  *)
(* so the claims about single executions are checked from a family of      *)
(* ponds the program reaches later: seeding fills a genome with any words  *)
(* and adds to the energy a cell already has, executions burn it one unit  *)
(* at a time, and a chain of offspring commits gives any generation.  The  *)
(* actor sits at (0, 0), the cell it faces after a reset at its LEFT.      *)
(***************************************************************************)
\* INC, then LOOP in every codon to the end of the genome: the loop stack
\* fills up during the second pass through the genome.
OverflowProgram ==
    [i \in 1 .. POND_DEPTH |-> IF i = 1 THEN 1 ELSE IF i = 2 THEN 3 ELSE 9]

ExecPrograms ==
    { <<1, 14, 15>>,              \* SHARE STOP
      <<1, 13, 15>>,              \* KILL STOP
      <<1, 8, 15>>,               \* WRITEB STOP
      <<1, 9, 9, 3, 10, 10>>,     \* LOOP LOOP INC REP REP, skipped with reg = 0
      <<1, 3, 9, 4, 10, 15>>,     \* INC LOOP DEC REP STOP
      <<1, 3, 11, 14, 13, 8>>,    \* INC TURN SHARE KILL WRITEB
      <<15>>,                     \* STOP in every codon
      <<1, 10, 15>>,              \* REP STOP
      <<1, 2, 3, 3, 6, 15>>,      \* BACK INC INC WRITEG: rewrites the next codon
      OverflowProgram }

\* The energies an actor starts with: every program is run with little and
\* with enough energy to pass once through the genome, the program that
\* begins with SHARE with the energies of the 10-and-3 scenario as well, and
\* the program that fills the loop stack with enough to overflow it.
ActorEnergies(c) ==
    IF c = OverflowProgram THEN {POND_DEPTH + 4}
    ELSE IF Len(c) >= 2 /\ c[2] = 14 THEN {1, 3, 4, 10, 11}
    ELSE {1, 7}

\* The id the scenarios' counter stands at, above every id in the pond.
BaseId == 8

ActorCells ==
    { [ID |-> 6, parentID |-> 0, lineage |-> 6, generation |-> 0, energy |-> ce[2],
       genome |-> Pack(ce[1])]
      : ce \in UNION { {<<c, e>> : e \in ActorEnergies(c)} : c \in ExecPrograms } }

\* The neighbour: a seeded cell, a viable offspring, and an offspring one
\* generation short of viable.
TargetCells ==
    { [ID |-> 7, parentID |-> 0, lineage |-> 7, generation |-> 0, energy |-> e,
       genome |-> Pack(<<1, 8, 15>>)] : e \in {0, 3, 10} }
    \cup
    { [ID |-> 7, parentID |-> 5, lineage |-> 2, generation |-> 3, energy |-> e,
       genome |-> Pack(<<0, 15>>)] : e \in {0, 3} }
    \cup
    { [ID |-> 7, parentID |-> 5, lineage |-> 2, generation |-> 2, energy |-> 3,
       genome |-> Pack(<<15, 14, 15>>)] }

InitExec ==
    /\ probe = NoProbe
    /\ \E a \in ActorCells, t \in TargetCells :
           pond = [i \in XS |-> [j \in YS |->
                      IF <<i, j>> = <<0, 0>> THEN a
                      ELSE IF <<i, j>> = getNeighbor(0, 0, N_LEFT) THEN t
                      ELSE DefaultCell]]
    /\ cellIdCounter = BaseId
    /\ statCounters = ZeroCounters
    /\ lastTotalViableReplicators = 0
    /\ clock = MaxClock - 1
    /\ pc = "tick"
    /\ x = 0
    /\ y = 0
    /\ vm = ZeroVM
    /\ mutations = 0
    /\ exe = NoExecution
    /\ issued = [i \in 1 .. BaseId |-> i - 1]
    /\ ev = [kind |-> "init", inst |-> 0, mutated |-> FALSE, skip |-> FALSE,
             acc |-> NoAccess, cont |-> FALSE, done |-> FALSE, sx |-> 0, sy |-> 0,
             pre |-> [pond |-> pond, cellIdCounter |-> BaseId,
                      statCounters |-> ZeroCounters, vm |-> ZeroVM]]

SpecExec == InitExec /\ [][Next]_vars

(***************************************************************************)
(* Single functions applied on their own.  The program's variables rest at *)
(* their values after main() cleared the pond; probe holds the             *)
(* configuration the function is compiled for, its arguments and result.   *)
(***************************************************************************)
programVars ==
    <<pond, cellIdCounter, statCounters, lastTotalViableReplicators, clock, pc,
      x, y, vm, mutations, exe, issued, ev>>

ProgramAtRest ==
    /\ pond = [i \in XS |-> [j \in YS |-> DefaultCell]]
    /\ cellIdCounter = 0
    /\ statCounters = ZeroCounters
    /\ lastTotalViableReplicators = 0
    /\ clock = 0
    /\ pc = "tick"
    /\ x = 0
    /\ y = 0
    /\ vm = ZeroVM
    /\ mutations = 0
    /\ exe = NoExecution
    /\ issued = <<>>
    /\ ev = [kind |-> "init", inst |-> 0, mutated |-> FALSE, skip |-> FALSE,
             acc |-> NoAccess, cont |-> FALSE, done |-> FALSE, sx |-> 0, sy |-> 0,
             pre |-> [pond |-> [i \in XS |-> [j \in YS |-> DefaultCell]],
                      cellIdCounter |-> 0, statCounters |-> ZeroCounters,
                      vm |-> ZeroVM]]

\* The largest POND_SIZE_X and POND_SIZE_Y getNeighbor is applied in.
MaxSide == 4

\* getNeighbor(cx, cy, dir) in ponds of every size up to MaxSide, from every
\* cell: each call starts from the cell the call before returned.
InitNeighbor ==
    /\ ProgramAtRest
    /\ \E w \in 1 .. MaxSide, h \in 1 .. MaxSide :
       \E cx \in 0 .. (w - 1), cy \in 0 .. (h - 1) :
           probe = [kind |-> "getNeighbor", w |-> w, h |-> h, cx |-> cx, cy |-> cy,
                    dir |-> 0, rx |-> cx, ry |-> cy, called |-> FALSE]

CallGetNeighbor ==
    /\ probe.kind = "getNeighbor"
    /\ \E dir \in 0 .. 3 :
           LET n == getNeighborIn(probe.w, probe.h, probe.rx, probe.ry, dir)
           IN  probe' = [probe EXCEPT !.cx = probe.rx, !.cy = probe.ry,
                                      !.dir = dir, !.rx = n[1], !.ry = n[2],
                                      !.called = TRUE]
    /\ UNCHANGED programVars

SpecNeighbor == InitNeighbor /\ [][CallGetNeighbor]_vars

(***************************************************************************)
(* The word indexes of the genome, the output buffer and the loop stack,   *)
(* in every configuration: POND_DEPTH is any multiple of the codons of one *)
(* machine word (16 on the 64-bit machines the comment of line 34 is       *)
(* written for), so POND_DEPTH_SYSWORDS is any number from 1 up.  probe    *)
(* holds the configuration, the VM locals that serve as indexes, and the   *)
(* indexes the last operation used.  The contents of the arrays are not    *)
(* followed.                                                               *)
(***************************************************************************)
\* The largest POND_DEPTH_SYSWORDS the indexes are followed in.
MaxDepthWords == 3

\* for(i=0;i<POND_DEPTH_SYSWORDS;++i): lines 296, 310, 516, 554
WordIndexes(words) == 0 .. (words - 1)

\* lines 312-320, with a register that makes LOOP push
DepthVM(words) ==
    [outputBuf |-> [i \in 0 .. (words - 1) |-> ALL_ONES],
     ptr_wordPtr |-> 0, ptr_shiftPtr |-> 0, reg |-> 1, facing |-> 0,
     loopStack_wordPtr |-> [i \in 0 .. (words * CodonsPerWord - 1) |-> 0],
     loopStack_shiftPtr |-> [i \in 0 .. (words * CodonsPerWord - 1) |-> 0],
     loopStackPtr |-> 0, falseLoopDepth |-> 0, stop |-> 0,
     wordPtr |-> EXEC_START_WORD, shiftPtr |-> EXEC_START_BIT, currentWord |-> 0]

InitDepth ==
    /\ ProgramAtRest
    /\ \E words \in 1 .. MaxDepthWords :
           probe = [kind |-> "depth", words |-> words, vm |-> DepthVM(words),
                    genomeIdx |-> {}, stackIdx |-> {}]

\* Seeding, the reset of the output buffer and the offspring commit.
DepthFill ==
    /\ probe.kind = "depth"
    /\ probe' = [probe EXCEPT !.genomeIdx = WordIndexes(probe.words),
                              !.stackIdx = {}]
    /\ UNCHANGED programVars

\* FWD, and the READG, WRITEG, READB or WRITEB that uses the pointer.
DepthFWD ==
    /\ probe.kind = "depth"
    /\ LET v == FWDIn(probe.words, probe.vm)
       IN  probe' = [probe EXCEPT !.vm = v, !.genomeIdx = {v.ptr_wordPtr},
                                  !.stackIdx = {}]
    /\ UNCHANGED programVars

DepthBACK ==
    /\ probe.kind = "depth"
    /\ LET v == BACKIn(probe.words, probe.vm)
       IN  probe' = [probe EXCEPT !.vm = v, !.genomeIdx = {v.ptr_wordPtr},
                                  !.stackIdx = {}]
    /\ UNCHANGED programVars

\* The cursor advance, and the read of genome[wordPtr] (lines 446-449, 495).
DepthAdvance ==
    /\ probe.kind = "depth"
    /\ LET v == AdvanceCursorIn(probe.words, probe.vm)
       IN  probe' = [probe EXCEPT !.vm = v, !.genomeIdx = {v.wordPtr},
                                  !.stackIdx = {}]
    /\ UNCHANGED programVars

\* LOOP with reg != 0: the slot of the loop stack it writes, if it writes.
DepthLOOP ==
    /\ probe.kind = "depth"
    /\ probe.vm.stop = 0
    /\ LET v == LOOPIn(probe.words * CodonsPerWord, probe.vm)
       IN  probe' = [probe EXCEPT
                        !.vm = [v EXCEPT
                                   !.loopStack_wordPtr = probe.vm.loopStack_wordPtr,
                                   !.loopStack_shiftPtr = probe.vm.loopStack_shiftPtr],
                        !.genomeIdx = {},
                        !.stackIdx = IF v.loopStackPtr # probe.vm.loopStackPtr
                                     THEN {probe.vm.loopStackPtr} ELSE {}]
    /\ UNCHANGED programVars

\* The blanking of a granted KILL.
DepthKILL ==
    /\ probe.kind = "depth"
    /\ probe' = [probe EXCEPT !.genomeIdx = BlankedWords, !.stackIdx = {}]
    /\ UNCHANGED programVars

NextDepth ==
    DepthFill \/ DepthFWD \/ DepthBACK \/ DepthAdvance \/ DepthLOOP \/ DepthKILL

SpecDepth == InitDepth /\ [][NextDepth]_vars

(***************************************************************************)
(* The claims.  ev holds the step that led to the current state and the    *)
(* state before it, so a claim about the effect of one step is a state     *)
(* predicate.                                                              *)
(***************************************************************************)
Cells == XS \X YS

\* The cell the access check of the last step was made against.
AccTarget == pond[ev.acc.tx][ev.acc.ty]

AccTargetBefore == ev.pre.pond[ev.acc.tx][ev.acc.ty]

AccDistinct == <<ev.acc.tx, ev.acc.ty>> # <<x, y>>

ShareGranted ==
    ev.kind = "step" /\ ~ev.skip /\ ev.inst = 14 /\ ev.acc.on /\ ev.acc.result

KillGranted ==
    ev.kind = "step" /\ ~ev.skip /\ ev.inst = 13 /\ ev.acc.on /\ ev.acc.result

CommitDone == ev.kind = "commit" /\ ev.done

\* The energy of the actor when the switch statement is entered, after the
\* cost of the step was taken.
EnergyAtDispatch == ev.pre.pond[x][y].energy - 1

\* C1: cell ids are unique: no two creation events (seeding, granted KILL,
\* offspring commit) hand out the same id.
C1_IdsUnique ==
    \A i, j \in 1 .. Len(issued) : i # j => issued[i] # issued[j]

\* C2: a cell with parent_id == 0 is an initial, seeded or killed cell: a cell
\* last written by an offspring commit (the only cells with generation > 0)
\* never has parent_id == 0.
C2_OffspringHasParent ==
    \A c \in Cells : pond[c[1]][c[2]].generation > 0 => pond[c[1]][c[2]].parentID # 0

\* C3: a granted SHARE with a distinct neighbour keeps the sum of the two
\* energies it found at dispatch, and leaves the actor with as much as the
\* neighbour or one more.
C3_ShareConserves ==
    (ShareGranted /\ AccDistinct) =>
        /\ pond[x][y].energy + AccTarget.energy
               = EnergyAtDispatch + AccTargetBefore.energy
        /\ pond[x][y].energy - AccTarget.energy \in {0, 1}

C3_Witness ==
    /\ ShareGranted
    /\ AccDistinct
    /\ AccTargetBefore.parentID # 0
    /\ pond[x][y].energy - AccTarget.energy = 1

\* C4 as stated: a cell picked with energy 1 performs exactly one step in
\* that tick: never a second one, and one by the time it is done.
C4_ExactlyOneStep ==
    exe.energy0 = 1 =>
        /\ exe.steps <= 1
        /\ ev.kind = "commit" => exe.steps = 1

FirstStepRefilled ==
    /\ exe.firstInst = 14
    /\ exe.first.on
    /\ exe.first.result
    /\ exe.firstNeighbor >= 1
    /\ <<exe.first.tx, exe.first.ty>> # <<x, y>>

\* C4 amended: a cell picked with energy 1 performs exactly one step unless
\* that step is a SHARE granted against a distinct neighbour that holds
\* energy; then the actor is left with energy and goes on.
C4_OneStepUnlessRefilled ==
    exe.energy0 = 1 =>
        /\ ev.kind = "commit" => exe.steps >= 1
        /\ exe.steps >= 2 => FirstStepRefilled
        /\ (exe.steps = 1 /\ ev.kind = "step") =>
               (pond[x][y].energy > 0 <=> FirstStepRefilled)

C4_Witness ==
    /\ ev.kind = "commit"
    /\ exe.energy0 = 1
    /\ exe.steps = 1
    /\ exe.firstInst = 14
    /\ exe.first.result

\* The popcount of a ^ b, bit by bit.
Distance(a, b) ==
    Cardinality({i \in 0 .. 3 : (a \div Pow2(i)) % 2 # (b \div Pow2(i)) % 2})

\* C5: a granted KILL leaves the target with its first two genome words
\* all-ones, generation 0, parent 0, the id the counter stood at, lineage
\* equal to that id and its energy as it was; viableCellsKilled goes up by one
\* if the target had generation > 2 and stays otherwise.
C5_KillBlanks ==
    KillGranted =>
        /\ AccTarget.genome[0] = ALL_ONES
        /\ AccTarget.genome[1] = ALL_ONES
        /\ AccTarget.generation = 0
        /\ AccTarget.parentID = 0
        /\ AccTarget.ID = ev.pre.cellIdCounter
        /\ AccTarget.lineage = AccTarget.ID
        /\ AccDistinct => AccTarget.energy = AccTargetBefore.energy
        /\ statCounters.viableCellsKilled =
               ev.pre.statCounters.viableCellsKilled
                   + (IF AccTargetBefore.generation > 2 THEN 1 ELSE 0)

C5_Witness ==
    /\ KillGranted
    /\ AccTargetBefore.generation > 2
    /\ AccTargetBefore.parentID # 0
    /\ AccTargetBefore.energy > 0
    /\ statCounters.viableCellsKilled = 1

\* C6: an offspring commit into a distinct neighbour gives the child the
\* parent's generation plus one, the parent's lineage, the parent's id as
\* parent_id and the output buffer as genome; the child's energy and the
\* parent are as they were.
C6_CommitInherits ==
    (CommitDone /\ AccDistinct) =>
        /\ AccTarget.generation = ev.pre.pond[x][y].generation + 1
        /\ AccTarget.lineage = ev.pre.pond[x][y].lineage
        /\ AccTarget.parentID = ev.pre.pond[x][y].ID
        /\ AccTarget.genome = ev.pre.vm.outputBuf
        /\ AccTarget.energy = AccTargetBefore.energy
        /\ pond[x][y] = ev.pre.pond[x][y]

C6_Witness ==
    /\ CommitDone
    /\ AccDistinct
    /\ AccTargetBefore.parentID # 0
    /\ AccTarget.lineage # AccTarget.ID
    /\ AccTarget.genome # BlankGenome

AliveCells == {c \in Cells : pond[c[1]][c[2]].energy > 0}

OneSeededCell ==
    /\ Cardinality(AliveCells) = 1
    /\ \A c \in AliveCells :
           /\ pond[c[1]][c[2]].energy >= INFLOW_RATE_BASE
           /\ pond[c[1]][c[2]].generation = 0
           /\ pond[c[1]][c[2]].parentID = 0

EndOfFirstInflowTick == clock = INFLOW_FREQUENCY /\ pc = "tick"

\* C8 as stated: from the cleared pond, at the end of tick INFLOW_FREQUENCY
\* exactly one cell has energy, and it has at least INFLOW_RATE_BASE,
\* generation 0 and parent 0, whatever was drawn.
C8_OneSeededCellAlways == EndOfFirstInflowTick => OneSeededCell

\* C8 amended: the same, provided the cell picked for execution in that tick
\* is not the cell that was seeded in it.
C8_OneSeededCellUnlessExecuted ==
    (EndOfFirstInflowTick /\ <<exe.sx, exe.sy>> # <<x, y>>) => OneSeededCell

C8_Witness ==
    /\ EndOfFirstInflowTick
    /\ exe.seeded
    /\ <<exe.sx, exe.sy>> # <<x, y>>
    /\ \E c \in AliveCells : pond[c[1]][c[2]].energy > INFLOW_RATE_BASE

\* C9 as stated: a granted SHARE between distinct cells that hold 10 and 3
\* when the step begins leaves the actor 7 and the neighbour 6, whichever of
\* the two is the actor.
C9_TenAndThreeAtStepBegin ==
    (/\ ShareGranted
     /\ AccDistinct
     /\ {ev.pre.pond[x][y].energy, AccTargetBefore.energy} = {10, 3}
     /\ ev.pre.pond[x][y].energy # AccTargetBefore.energy) =>
        pond[x][y].energy = 7 /\ AccTarget.energy = 6

\* C9 amended: a granted SHARE between distinct cells that hold 10 and 3 at
\* the dispatch of the SHARE, after the actor has paid the cost of the step,
\* leaves the actor 7 and the neighbour 6, whichever of the two is the actor.
C9_TenAndThreeAtDispatch ==
    (/\ ShareGranted
     /\ AccDistinct
     /\ {EnergyAtDispatch, AccTargetBefore.energy} = {10, 3}
     /\ EnergyAtDispatch # AccTargetBefore.energy) =>
        pond[x][y].energy = 7 /\ AccTarget.energy = 6

C9_Witness ==
    /\ ShareGranted
    /\ AccDistinct
    /\ EnergyAtDispatch = 3
    /\ AccTargetBefore.energy = 10
    /\ pond[x][y].energy = 7

\* The VM registers a skipped codon must leave alone.
Registers(v) ==
    <<v.reg, v.ptr_wordPtr, v.ptr_shiftPtr, v.facing, v.outputBuf,
      v.loopStack_wordPtr, v.loopStack_shiftPtr, v.loopStackPtr, v.stop>>

Cursor(v) == <<v.wordPtr, v.shiftPtr>>

\* C10: a LOOP executed with reg == 0 starts skipping; apart from mutation
\* events, every codon met while skipping changes no register, genome, output
\* buffer, loop stack, neighbour or counter and does not set stop: it costs
\* one energy, advances the cursor by one codon and changes the depth only
\* by +1 (LOOP) or -1 (REP); skipping ends exactly at the REP met at depth 1.
C10_SkipToMatchingRep ==
    /\ (ev.kind = "step" /\ ~ev.skip /\ ~ev.mutated /\ ev.inst = 9 /\ vm.reg = 0) =>
           /\ vm.falseLoopDepth = 1
           /\ Registers(vm) = Registers(ev.pre.vm)
    /\ (ev.kind = "step" /\ ev.skip /\ ~ev.mutated) =>
           /\ Registers(vm) = Registers(ev.pre.vm)
           /\ Cursor(vm) = Cursor(AdvanceCursor(ev.pre.vm))
           /\ pond = [ev.pre.pond EXCEPT ![x][y].energy = @ - 1]
           /\ cellIdCounter = ev.pre.cellIdCounter
           /\ statCounters = ev.pre.statCounters
           /\ vm.falseLoopDepth =
                  ev.pre.vm.falseLoopDepth
                      + (IF ev.inst = 9 THEN 1 ELSE IF ev.inst = 10 THEN -1 ELSE 0)
           /\ vm.falseLoopDepth = 0 <=>
                  (ev.inst = 10 /\ ev.pre.vm.falseLoopDepth = 1)

C10_Witness ==
    /\ ev.kind = "step"
    /\ ev.skip
    /\ ~ev.mutated
    /\ ev.inst = 10
    /\ ev.pre.vm.falseLoopDepth = 1
    /\ vm.falseLoopDepth = 0
    /\ exe.steps >= 5

\* The cell picked for execution, as it was when it was picked.
ExecutedCell0 == exe.pond0[x][y]

AllOnes(words) ==
    \A i \in DOMAIN words : \A j \in 0 .. (CodonsPerWord - 1) :
        CodonAt(words[i], 4 * j) = 15

\* C11: a cell with energy whose genome is STOP in every codon, executed
\* without a mutation event, performs exactly one step, loses exactly 1
\* energy, leaves the output buffer all-ones, commits no offspring and changes
\* no other cell.
C11_AllStopOneStep ==
    (/\ ev.kind \in {"step", "commit"}
     /\ AllOnes(ExecutedCell0.genome)
     /\ exe.energy0 > 0
     /\ ~exe.mutated) =>
        /\ exe.steps = 1
        /\ vm.stop = 1
        /\ pond = [exe.pond0 EXCEPT ![x][y].energy = exe.energy0 - 1]
        /\ AllOnes(vm.outputBuf)
        /\ ev.kind = "commit" => ~ev.done /\ cellIdCounter = ev.pre.cellIdCounter

C11_Witness ==
    /\ ev.kind = "commit"
    /\ AllOnes(ExecutedCell0.genome)
    /\ exe.energy0 = 7
    /\ ~exe.mutated
    /\ \E c \in Cells : c # <<x, y>> /\ pond[c[1]][c[2]].energy > 0

\* The tick that led to the current state seeded a cell (line 282).
SeedingDone == ev.kind = "tick" /\ clock % INFLOW_FREQUENCY = 0

\* C12: cellIdCounter never decreases, and it is strictly greater after each
\* seeding, each granted KILL and each offspring commit than before it.
C12_CounterMonotonic ==
    /\ cellIdCounter >= ev.pre.cellIdCounter
    /\ SeedingDone => cellIdCounter > ev.pre.cellIdCounter
    /\ KillGranted => cellIdCounter > ev.pre.cellIdCounter
    /\ CommitDone => cellIdCounter > ev.pre.cellIdCounter

\* A granted KILL in a run that has seeded a cell and committed an offspring.
C12_Witness ==
    /\ KillGranted
    /\ Len(issued) = 3
    /\ \E c \in Cells : pond[c[1]][c[2]].generation = 1
    /\ cellIdCounter = ev.pre.cellIdCounter + 1

\* The direction opposite to dir.
Opposite(dir) ==
    CASE dir = N_LEFT -> N_RIGHT [] dir = N_RIGHT -> N_LEFT
      [] dir = N_UP -> N_DOWN [] dir = N_DOWN -> N_UP

\* C13: the neighbour of (x, y) is ((x-1) mod POND_SIZE_X, y) for LEFT,
\* ((x+1) mod POND_SIZE_X, y) for RIGHT, (x, (y-1) mod POND_SIZE_Y) for UP and
\* (x, (y+1) mod POND_SIZE_Y) for DOWN; LEFT and RIGHT are mutually inverse,
\* as are UP and DOWN, at the edges too.
C13_NeighborWraps ==
    (probe.kind = "getNeighbor" /\ probe.called) =>
        /\ <<probe.rx, probe.ry>> =
               CASE probe.dir = N_LEFT  -> <<(probe.cx - 1) % probe.w, probe.cy>>
                 [] probe.dir = N_RIGHT -> <<(probe.cx + 1) % probe.w, probe.cy>>
                 [] probe.dir = N_UP    -> <<probe.cx, (probe.cy - 1) % probe.h>>
                 [] probe.dir = N_DOWN  -> <<probe.cx, (probe.cy + 1) % probe.h>>
        /\ getNeighborIn(probe.w, probe.h, probe.rx, probe.ry, Opposite(probe.dir))
               = <<probe.cx, probe.cy>>

\* A wrap at the upper edge of a pond in which UP and DOWN differ.
C13_Witness ==
    /\ probe.kind = "getNeighbor"
    /\ probe.called
    /\ probe.h >= 3
    /\ probe.cx > 0
    /\ probe.cy = 0
    /\ probe.dir = N_UP
    /\ probe.ry = probe.h - 1

RepOnEmptyStack ==
    ev.kind = "step" /\ ~ev.skip /\ ev.inst = 10 /\ ev.pre.vm.loopStackPtr = 0

\* The VM state a REP can touch besides the register and the cursor.
RepFrame(v) ==
    <<v.ptr_wordPtr, v.ptr_shiftPtr, v.facing, v.outputBuf, v.loopStack_wordPtr,
      v.loopStack_shiftPtr, v.loopStackPtr, v.stop, v.falseLoopDepth>>

\* C14: a REP executed outside skip mode with the loop stack empty changes
\* no register, genome, output buffer or neighbour and leaves the stack empty:
\* it costs 1 energy, counts one REP and advances the cursor by one codon.  (A
\* mutation event of the same step may have replaced the register before.)
C14_RepEmptyStackNoOp ==
    RepOnEmptyStack =>
        /\ RepFrame(vm) = RepFrame(ev.pre.vm)
        /\ vm.loopStackPtr = 0
        /\ ~ev.mutated => vm.reg = ev.pre.vm.reg
        /\ Cursor(vm) = Cursor(AdvanceCursor(ev.pre.vm))
        /\ ~ev.cont
        /\ pond = [ev.pre.pond EXCEPT ![x][y].energy = @ - 1]
        /\ cellIdCounter = ev.pre.cellIdCounter
        /\ statCounters =
               [ev.pre.statCounters EXCEPT !.instructionExecutions[10] = @ + 1]

C14_Witness ==
    /\ RepOnEmptyStack
    /\ ~ev.mutated
    /\ exe.steps = 1
    /\ pond[x][y].energy = 6

\* A LOOP dispatched with reg != 0 while the loop stack is full.
LoopOverflow ==
    /\ ev.kind = "step"
    /\ ~ev.skip
    /\ ev.inst = 9
    /\ vm.reg # 0
    /\ ev.pre.vm.loopStackPtr >= POND_DEPTH

LoopStack(v) == <<v.loopStack_wordPtr, v.loopStack_shiftPtr, v.loopStackPtr>>

\* C15 as stated: a LOOP with reg != 0 met with POND_DEPTH entries on the loop
\* stack sets stop, pushes nothing and does not advance the cursor: the
\* execution ends with the cursor on that LOOP codon.
C15_OverflowKeepsCursor ==
    LoopOverflow =>
        /\ vm.stop = 1
        /\ LoopStack(vm) = LoopStack(ev.pre.vm)
        /\ Cursor(vm) = Cursor(ev.pre.vm)

\* C15 amended: such a LOOP sets stop and pushes nothing, and the cursor is
\* advanced by one codon as after any other instruction: the execution ends
\* with the cursor on the codon after that LOOP.
C15_OverflowAdvancesCursor ==
    LoopOverflow =>
        /\ vm.stop = 1
        /\ LoopStack(vm) = LoopStack(ev.pre.vm)
        /\ Cursor(vm) = Cursor(AdvanceCursor(ev.pre.vm))
        /\ Cursor(vm) # Cursor(ev.pre.vm)
        /\ pond = [ev.pre.pond EXCEPT ![x][y].energy = @ - 1]

C15_Witness ==
    /\ LoopOverflow
    /\ ~exe.mutated
    /\ exe.steps = POND_DEPTH + 3
    /\ vm.loopStackPtr = POND_DEPTH

\* The exit of an execution at which one of the three conditions of the
\* commit fails.
CommitBlocked ==
    /\ ev.kind = "commit"
    /\ LET n == getNeighbor(x, y, vm.facing)
       IN  \/ vm.outputBuf[0] % 256 = 255
           \/ ev.pre.pond[n[1]][n[2]].energy = 0
           \/ ev.acc.on /\ ev.acc.sense = 0 /\ ~ev.acc.result

\* C16: at the end of an execution, if the low 8 bits of word 0 of the output
\* buffer are all ones, or the neighbour faced has energy 0, or the sense-0
\* access check is denied, the commit changes no cell and changes neither
\* cellIdCounter nor viableCellsReplaced.
C16_BlockedCommitChangesNothing ==
    CommitBlocked =>
        /\ pond = ev.pre.pond
        /\ cellIdCounter = ev.pre.cellIdCounter
        /\ statCounters.viableCellsReplaced =
               ev.pre.statCounters.viableCellsReplaced

\* An offspring is ready, the neighbour is alive and viable, and the access
\* check turns the commit down.
C16_Witness ==
    /\ ev.kind = "commit"
    /\ vm.outputBuf[0] % 256 # 255
    /\ ev.acc.on
    /\ ~ev.acc.result
    /\ AccTargetBefore.energy > 0
    /\ AccTargetBefore.generation > 2

KillDenied ==
    ev.kind = "step" /\ ~ev.skip /\ ev.inst = 13 /\ ev.acc.on /\ ~ev.acc.result

\* C17: a KILL the access gate denies leaves the target and cellIdCounter as
\* they were; the actor loses floor(e / FAILED_KILL_PENALTY), e its energy
\* after the step cost, exactly when the target has generation > 2, and its
\* energy does not go below 0.
C17_DeniedKillPenalty ==
    KillDenied =>
        /\ AccDistinct => AccTarget = AccTargetBefore
        /\ cellIdCounter = ev.pre.cellIdCounter
        /\ pond[x][y].energy =
               IF AccTargetBefore.generation > 2
               THEN EnergyAtDispatch - (EnergyAtDispatch \div FAILED_KILL_PENALTY)
               ELSE EnergyAtDispatch
        /\ pond[x][y].energy >= 0

C17_Witness ==
    /\ KillDenied
    /\ AccTargetBefore.generation > 2
    /\ EnergyAtDispatch >= FAILED_KILL_PENALTY
    /\ pond[x][y].energy < EnergyAtDispatch
    /\ pond[x][y].energy > 0

\* C18: in every permitted configuration, every genome or output-buffer word
\* index an instruction, the KILL blanking, the seeding or the offspring
\* commit reads or writes is less than POND_DEPTH_SYSWORDS, and every
\* loop-stack index written is less than POND_DEPTH.
C18_IndexesInBounds ==
    probe.kind = "depth" =>
        /\ \A i \in probe.genomeIdx : i < probe.words
        /\ \A i \in probe.stackIdx : i < probe.words * CodonsPerWord

\* C19: at every instruction fetch the cached word is the genome word at the
\* cursor, so the codon fetched is the one now in the genome, also after a
\* WRITEG or XCHG changed the word being executed, after a REP jumped and
\* after the cursor wrapped.
C19_CurrentWordIsGenomeWord ==
    pc = "exec" => vm.currentWord = pond[x][y].genome[vm.wordPtr]

\* A WRITEG has just changed the word being executed, in which the next
\* codon is fetched.
C19_Witness ==
    /\ ev.kind = "step"
    /\ ~ev.skip
    /\ ~exe.mutated
    /\ ev.inst = 6
    /\ ev.pre.vm.ptr_wordPtr = ev.pre.vm.wordPtr
    /\ vm.wordPtr = ev.pre.vm.wordPtr
    /\ pond[x][y].genome[vm.wordPtr] # ev.pre.pond[x][y].genome[vm.wordPtr]
    /\ pond[x][y].energy > 0
    /\ vm.stop = 0

\* The energy of the cell picked and of its four neighbours in pond p.
FourNeighbourEnergy(p) ==
    p[x][y].energy
        + p[getNeighbor(x, y, N_LEFT)[1]][getNeighbor(x, y, N_LEFT)[2]].energy
        + p[getNeighbor(x, y, N_RIGHT)[1]][getNeighbor(x, y, N_RIGHT)[2]].energy
        + p[getNeighbor(x, y, N_UP)[1]][getNeighbor(x, y, N_UP)[2]].energy
        + p[getNeighbor(x, y, N_DOWN)[1]][getNeighbor(x, y, N_DOWN)[2]].energy

\* The cell picked and the cells it can reach, each once.
Neighbourhood == {<<x, y>>} \cup {getNeighbor(x, y, d) : d \in 0 .. 3}

RECURSIVE SumEnergy(_, _)
SumEnergy(p, S) ==
    IF S = {} THEN 0
    ELSE LET c == CHOOSE c \in S : TRUE
         IN  p[c[1]][c[2]].energy + SumEnergy(p, S \ {c})

\* C20: every execution terminates: the steps of an execution never exceed
\* the energy the cell picked and its four neighbours held when it began,
\* also when SHARE raises the energy of the cell.  (Every step takes at least
\* one unit from the energy the neighbourhood holds between it.)
C20_StepsBounded ==
    ev.kind \in {"step", "commit"} =>
        /\ exe.steps <= FourNeighbourEnergy(exe.pond0)
        /\ exe.steps + SumEnergy(pond, Neighbourhood)
               <= SumEnergy(exe.pond0, Neighbourhood)

\* An execution that has ended after more steps than the cell had energy.
C20_Witness ==
    /\ ev.kind = "commit"
    /\ exe.energy0 = 1
    /\ exe.steps >= 3
    /\ pond[x][y].energy = 0

\* The energy of all the cells of pond p together.
TotalEnergy(p) == SumEnergy(p, Cells)

\* Pond p with the cost of one step taken from the cell picked: the pond as
\* the instruction of the step finds it.
PondAtDispatch(p) == [p EXCEPT ![x][y].energy = @ - 1]

\* Every cell holds in pond p the energy it holds in pond q.
SameEnergies(p, q) == \A c \in Cells : p[c[1]][c[2]].energy = q[c[1]][c[2]].energy

\* C21: seeding is the only operation that increases the total energy of the
\* pond: a tick that seeds raises it, a tick that does not seed leaves every
\* cell's energy alone, every executed instruction step lowers the total by
\* at least 1, a granted KILL changes no cell's energy beyond the cost of its
\* step, an offspring commit changes no cell's energy, and no cell's energy
\* is ever below 0.
C21_OnlySeedingAddsEnergy ==
    /\ \A c \in Cells : pond[c[1]][c[2]].energy >= 0
    /\ ev.kind = "tick" =>
           IF ev.done
           THEN /\ TotalEnergy(pond) > TotalEnergy(ev.pre.pond)
                /\ \A c \in Cells \ {<<ev.sx, ev.sy>>} :
                       pond[c[1]][c[2]].energy = ev.pre.pond[c[1]][c[2]].energy
           ELSE SameEnergies(pond, ev.pre.pond)
    /\ ev.kind = "step" => TotalEnergy(pond) <= TotalEnergy(ev.pre.pond) - 1
    /\ KillGranted => SameEnergies(pond, PondAtDispatch(ev.pre.pond))
    /\ ev.kind = "commit" => SameEnergies(pond, ev.pre.pond)

\* An execution of a cell seeded in the same tick has ended with an offspring
\* written to a neighbour: the pond holds the energy it held after the
\* seeding less one unit for each step, and not all of it is spent.
C21_Witness ==
    /\ ev.kind = "commit"
    /\ ev.done
    /\ exe.seeded
    /\ exe.steps >= 2
    /\ TotalEnergy(exe.pond0) > 0
    /\ TotalEnergy(pond) = TotalEnergy(exe.pond0) - exe.steps
    /\ TotalEnergy(pond) > 0
====
